---- MODULE Spec2Model ----
(***************************************************************************)
(* Model of rayrender's importance-sampling core: the pdf family of        *)
(* src/src/pdf.h (cosine_pdf, micro_pdf, glossy_pdf, hair_pdf's            *)
(* constructor, mixture_pdf) and the triangle primitive's constructors and *)
(* destructor of src/src/triangle.h.                                       *)
(*                                                                         *)
(* Arithmetic.  A Float is modelled as an exact extended rational          *)
(* [n |-> numerator, d |-> denominator] in lowest terms with d >= 0;       *)
(* d = 0 carries the IEEE special values: n = 1 is +infinity, n = -1 is    *)
(* -infinity and n = 0 is NaN.  Rounding is not modelled: inputs are drawn *)
(* from sets on which every square root the code takes is exact.           *)
(* A density is a pair [p, k] of such rationals standing for p/pi + k, so  *)
(* that the constant M_PI is kept symbolic.                                *)
(***************************************************************************)
EXTENDS Integers, Sequences, FiniteSets, TLC

\* ------------------------------------------------------------------------
\* Extended rationals (the Float type)

Abs(i) == IF i < 0 THEN -i ELSE i

Sign(i) == IF i > 0 THEN 1 ELSE IF i < 0 THEN -1 ELSE 0

RECURSIVE Gcd(_, _)
Gcd(a, b) == IF b = 0 THEN a ELSE Gcd(b, a % b)

Rat(n, d) ==
    IF d = 0 THEN [n |-> Sign(n), d |-> 0]
    ELSE LET g == Gcd(Abs(n), Abs(d))
         IN  [n |-> (Sign(d) * n) \div g, d |-> Abs(d) \div g]

R(i) == [n |-> i, d |-> 1]

Zero == R(0)

One == R(1)

Half == Rat(1, 2)

Inf == [n |-> 1, d |-> 0]

NaN == [n |-> 0, d |-> 0]

IsNaN(a) == a.d = 0 /\ a.n = 0

IsInf(a) == a.d = 0 /\ a.n # 0

IsFinite(a) == a.d # 0

RMul(a, b) == Rat(a.n * b.n, a.d * b.d)

\* a + b over the least common denominator; g is gcd(a.d, b.d).
RAddOver(a, b, g) ==
    Rat(a.n * (b.d \div g) + b.n * (a.d \div g), (a.d \div g) * b.d)

RAdd(a, b) ==
    IF IsInf(a) /\ IsInf(b)
    THEN (IF a.n = b.n THEN a ELSE NaN)
    ELSE IF a.d = 0 \/ b.d = 0
    THEN Rat(a.n * b.d + b.n * a.d, a.d * b.d)
    ELSE RAddOver(a, b, Gcd(a.d, b.d))

RNeg(a) == [n |-> -a.n, d |-> a.d]

RSub(a, b) == RAdd(a, RNeg(b))

RInv(a) ==
    IF a.n > 0 THEN [n |-> a.d, d |-> a.n]
    ELSE IF a.n < 0 THEN [n |-> -a.d, d |-> -a.n]
    ELSE IF a.d # 0 THEN Inf
    ELSE NaN

RDiv(a, b) == RMul(a, RInv(b))

\* IEEE comparisons: any comparison with a NaN is false.
RLess(a, b) == ~IsNaN(a) /\ ~IsNaN(b) /\ a.n * b.d < b.n * a.d

RGreater(a, b) == RLess(b, a)

RAbs(a) == [n |-> Abs(a.n), d |-> a.d]

RECURSIVE ISqrtFrom(_, _)
ISqrtFrom(i, r) == IF (r + 1) * (r + 1) > i THEN r ELSE ISqrtFrom(i, r + 1)

ISqrt(i) == ISqrtFrom(i, 0)

IsSquare(i) == i >= 0 /\ ISqrt(i) * ISqrt(i) = i

\* sqrt: exact on the rationals whose numerator and denominator are squares.
ExactSqrt(a) == IsFinite(a) => (IsSquare(a.n) /\ IsSquare(a.d))

RSqrt(a) ==
    IF IsNaN(a) \/ a.n < 0 THEN NaN
    ELSE IF IsInf(a) THEN Inf
    ELSE Rat(ISqrt(a.n), ISqrt(a.d))

\* ------------------------------------------------------------------------
\* vec3

V(x, y, z) == <<R(x), R(y), R(z)>>

VAdd(a, b) == <<RAdd(a[1], b[1]), RAdd(a[2], b[2]), RAdd(a[3], b[3])>>

VSub(a, b) == <<RSub(a[1], b[1]), RSub(a[2], b[2]), RSub(a[3], b[3])>>

VNeg(a) == <<RNeg(a[1]), RNeg(a[2]), RNeg(a[3])>>

VScale(t, a) == <<RMul(t, a[1]), RMul(t, a[2]), RMul(t, a[3])>>

VDivide(a, t) == <<RDiv(a[1], t), RDiv(a[2], t), RDiv(a[3], t)>>

dot(a, b) == RAdd(RAdd(RMul(a[1], b[1]), RMul(a[2], b[2])), RMul(a[3], b[3]))

cross(a, b) ==
    << RSub(RMul(a[2], b[3]), RMul(a[3], b[2])),
       RSub(RMul(a[3], b[1]), RMul(a[1], b[3])),
       RSub(RMul(a[1], b[2]), RMul(a[2], b[1])) >>

squared_length(a) == dot(a, a)

length(a) == RSqrt(squared_length(a))

unit_vector(a) == VDivide(a, length(a))

ExactLength(a) == ExactSqrt(squared_length(a))

VIsNaN(a) == IsNaN(a[1]) \/ IsNaN(a[2]) \/ IsNaN(a[3])

\* ------------------------------------------------------------------------
\* Densities: the Float a value() returns, kept as p/pi + k.

DNaN == [p |-> NaN, k |-> NaN]

DInf == [p |-> Zero, k |-> Inf]

Dens(p, k) ==
    IF IsNaN(p) \/ IsNaN(k) THEN DNaN
    ELSE IF IsInf(p) /\ IsInf(k) THEN (IF p.n = k.n THEN [p |-> Zero, k |-> k] ELSE DNaN)
    ELSE IF IsInf(p) THEN [p |-> Zero, k |-> p]
    ELSE IF IsInf(k) THEN [p |-> Zero, k |-> k]
    ELSE [p |-> p, k |-> k]

DZero == Dens(Zero, Zero)

\* x / M_PI  and  x * M_1_PI
OverPi(c) == Dens(c, Zero)

Plain(c) == Dens(Zero, c)

DScale(t, a) == Dens(RMul(t, a.p), RMul(t, a.k))

DAdd(a, b) == Dens(RAdd(a.p, b.p), RAdd(a.k, b.k))

DIsInf(a) == IsInf(a.k) /\ a.k.n > 0

DIsNaN(a) == IsNaN(a.k)

DNonNegative(a) == ~DIsNaN(a) /\ ~RLess(a.p, Zero) /\ ~RLess(a.k, Zero)

\* ------------------------------------------------------------------------
\* onb (onbh.h): an orthonormal frame <<u, v, w>> built from one axis.

build_from_w(n) ==
    LET w == unit_vector(n)
        a == IF RGreater(RAbs(w[1]), Rat(9999999, 10000000))
             THEN V(0, 1, 0) ELSE V(1, 0, 0)
        v == unit_vector(cross(w, a))
        u == cross(w, v)
    IN  <<u, v, w>>

world_to_local(uvw, a) == <<dot(a, uvw[1]), dot(a, uvw[2]), dot(a, uvw[3])>>

local_to_world(uvw, a) ==
    VAdd(VAdd(VScale(a[1], uvw[1]), VScale(a[2], uvw[2])), VScale(a[3], uvw[3]))

\* ------------------------------------------------------------------------
\* External collaborators of pdf.h (mathinline.h, microfacetdist.h, rng.h,
\* sampler.h).

AbsCosTheta(w) == RAbs(w[3])

Reflect(wo, n) == VAdd(VNeg(wo), VScale(RMul(R(2), dot(wo, n)), n))

\* MicrofacetDistribution::Pdf(wo, wi, wh): an opaque positive density of
\* the half vector; `distribution` stands for the object's parameters.
DistPdf(distribution, wo, wi, wh) == RAdd(R(distribution), RAbs(wh[3]))

\* (cos, sin) of 2*pi*u for u a multiple of 1/4.
CosSin2Pi(u) ==
    IF u = Zero THEN <<R(1), R(0)>>
    ELSE IF u = Rat(1, 4) THEN <<R(0), R(1)>>
    ELSE IF u = Half THEN <<R(-1), R(0)>>
    ELSE <<R(0), R(-1)>>

\* (sqrt(u), sqrt(1-u)) for u in [0,1), taken to the nearest point of the
\* unit circle with rational coordinates.
SqrtPair(u) ==
    IF u = Zero THEN <<R(0), R(1)>>
    ELSE IF u = Rat(1, 4) THEN <<Rat(3, 5), Rat(4, 5)>>
    ELSE IF u = Half THEN <<Rat(4, 5), Rat(3, 5)>>
    ELSE <<Rat(24, 25), Rat(7, 25)>>

\* rand_cosine_direction(vec2 u) and random_gen::random_cosine_direction()
\* with r1 and r2 its two successive unif_rand() draws.
rand_cosine_direction(r1, r2) ==
    LET cs == CosSin2Pi(r1)
        sz == SqrtPair(r2)
    IN  <<RMul(cs[1], sz[1]), RMul(cs[2], sz[1]), sz[2]>>

\* MicrofacetDistribution::Sample_wh(wi, u1, u2): u1 tilts the half vector
\* away from the normal, u2 turns it about the normal; the result lies on
\* wi's side of the surface.
Sample_wh(distribution, wi, u1, u2) ==
    LET sc == SqrtPair(u1)
        cs == CosSin2Pi(u2)
        wh == <<RMul(sc[1], cs[1]), RMul(sc[1], cs[2]), sc[2]>>
    IN  IF RLess(RMul(wi[3], wh[3]), Zero) THEN VNeg(wh) ELSE wh

\* ------------------------------------------------------------------------
\* triangle: constructors and destructor

Null == "null"

\* What an uninitialised pointer member may hold besides the values below:
\* an address that is no object.
Wild == "wild"

\* triangle(): no member is initialised.  The members the destructor reads
\* hold indeterminate values; the geometry members are indeterminate too and
\* are read by nothing modelled here, so the record leaves them out.
triangle_default(_single, mat, alpha_mask, bump_tex) ==
    [st |-> "live", ctor |-> "default", single |-> _single,
     mp |-> mat, alpha_mask |-> alpha_mask, bump_tex |-> bump_tex]

\* triangle(a, b, c, single, mat, alpha_mask, bump_tex); na, nb, nc stay
\* uninitialised.
triangle_plain(abc, _single, mat, alpha_mask, bump_tex) ==
    LET edge1 == VSub(abc[2], abc[1])
        edge2 == VSub(abc[3], abc[1])
        n == cross(edge1, edge2)
    IN  [st |-> "live", ctor |-> "plain",
         a |-> abc[1], b |-> abc[2], c |-> abc[3],
         edge1 |-> edge1, edge2 |-> edge2,
         area |-> RDiv(length(n), R(2)),
         normal |-> unit_vector(n),
         normals_provided |-> FALSE,
         single |-> _single,
         mp |-> mat, alpha_mask |-> alpha_mask, bump_tex |-> bump_tex]

\* triangle(a, b, c, na, nb, nc, single, mat, alpha_mask, bump_tex)
triangle_normals(abc, nabc, _single, mat, alpha_mask, bump_tex) ==
    LET edge1 == VSub(abc[2], abc[1])
        edge2 == VSub(abc[3], abc[1])
        n == cross(edge1, edge2)
    IN  [st |-> "live", ctor |-> "normals",
         a |-> abc[1], b |-> abc[2], c |-> abc[3],
         na |-> nabc[1], nb |-> nabc[2], nc |-> nabc[3],
         edge1 |-> edge1, edge2 |-> edge2,
         area |-> RDiv(length(n), R(2)),
         normal |-> n,
         normals_provided |-> TRUE,
         single |-> _single,
         mp |-> mat, alpha_mask |-> alpha_mask, bump_tex |-> bump_tex]

\* if(ptr) delete ptr;
DeleteIfSet(ptr, rel) == IF ptr # Null THEN [rel EXCEPT ![ptr] = @ + 1] ELSE rel

\* A destructor that does not look at the single flag.
triangle_dtor_unconditional(r, rel) ==
    DeleteIfSet(r.bump_tex, DeleteIfSet(r.alpha_mask, DeleteIfSet(r.mp, rel)))

\* ~triangle(): the delete counts after destroying the triangle r.
triangle_dtor(r, rel) ==
    IF r.single
    THEN DeleteIfSet(r.bump_tex, DeleteIfSet(r.alpha_mask, DeleteIfSet(r.mp, rel)))
    ELSE rel

Pointees(r) == {r.mp, r.alpha_mask, r.bump_tex} \ {Null}

\* ------------------------------------------------------------------------
\* triangle::hit, triangle::pdf_value, triangle::random (declared in
\* triangle.h, defined elsewhere) and hitable_list (hitablelist.h)

Miss == [hit |-> FALSE, t |-> Zero]

\* Smallest ray parameter at which a hit counts.
HitTMin == Rat(1, 1000)

\* The outcome of hit() for barycentric coordinates bu, bv and ray
\* parameter t computed over the determinant det.
HitAt(det, bu, bv, t) ==
    IF IsNaN(det) \/ det = Zero THEN Miss
    ELSE IF RLess(bu, Zero) \/ RGreater(bu, One) THEN Miss
    ELSE IF RLess(bv, Zero) \/ RGreater(RAdd(bu, bv), One) THEN Miss
    ELSE IF RLess(t, HitTMin) THEN Miss
    ELSE [hit |-> TRUE, t |-> t]

\* Ray-triangle intersection by barycentric coordinates; a degenerate
\* triangle is never hit.
triangle_hit(r, o, v) ==
    LET pvec == cross(v, r.edge2)
        det == dot(r.edge1, pvec)
        tvec == VSub(o, r.a)
        qvec == cross(tvec, r.edge1)
    IN  HitAt(det, RDiv(dot(tvec, pvec), det), RDiv(dot(v, qvec), det),
              RDiv(dot(r.edge2, qvec), det))

\* distance^2 / (|cos| * area) when the ray from o along v hits, else 0.
triangle_pdf_value(r, o, v) ==
    LET rec == triangle_hit(r, o, v)
        distance_squared == RMul(RMul(rec.t, rec.t), squared_length(v))
        cosine == RDiv(RAbs(dot(v, r.normal)), length(v))
    IN  IF rec.hit
        THEN Plain(RDiv(distance_squared, RMul(cosine, r.area)))
        ELSE DZero

\* The direction from o to the point of the triangle with barycentric
\* coordinates (1 - sqrt(r1), r2 sqrt(r1), the rest).
triangle_random(r, o, r1, r2) ==
    LET su0 == SqrtPair(r1)[1]
        b0 == RSub(One, su0)
        b1 == RMul(r2, su0)
        b2 == RSub(RSub(One, b0), b1)
        point == VAdd(VAdd(VScale(b0, r.a), VScale(b1, r.b)), VScale(b2, r.c))
    IN  VSub(point, o)

RECURSIVE SumPdfValue(_, _, _, _)
SumPdfValue(list, o, v, i) ==
    IF i > Len(list) THEN DZero
    ELSE DAdd(DScale(Rat(1, Len(list)), triangle_pdf_value(list[i], o, v)),
              SumPdfValue(list, o, v, i + 1))

\* hitable_list::pdf_value(o, v, rng): the items' densities, equally weighted.
hitable_list_pdf_value(list, o, v) == SumPdfValue(list, o, v, 1)

\* floor(u * n) for u in [0, 1)
IndexOf(u, n) == (u.n * n) \div u.d

\* ------------------------------------------------------------------------
\* cosine_pdf

cosine_pdf(w) == [kind |-> "cosine", uvw |-> build_from_w(w)]

cosine_value_nobranch(o, direction) ==
    OverPi(dot(unit_vector(direction), o.uvw[3]))

cosine_value(o, direction) ==
    LET cosine == dot(unit_vector(direction), o.uvw[3])
    IN  IF RGreater(cosine, Zero) THEN OverPi(cosine) ELSE DZero

\* ------------------------------------------------------------------------
\* micro_pdf

micro_pdf(w, wi_, distribution) ==
    LET uvw == build_from_w(w)
    IN  [kind |-> "micro", uvw |-> uvw,
         wi |-> VNeg(unit_vector(world_to_local(uvw, wi_))),
         distribution |-> distribution]

micro_value(o, direction) ==
    LET wo == unit_vector(world_to_local(o.uvw, direction))
        wh == unit_vector(VAdd(o.wi, wo))
    IN  Plain(RDiv(DistPdf(o.distribution, wo, o.wi, wh),
                   RMul(R(4), dot(wo, wh))))

\* ------------------------------------------------------------------------
\* glossy_pdf

glossy_pdf(w, wi_, distribution) ==
    LET uvw == build_from_w(w)
    IN  [kind |-> "glossy", uvw |-> uvw,
         wi |-> VNeg(unit_vector(world_to_local(uvw, wi_))),
         distribution |-> distribution]

glossy_value_le(o, direction) ==
    LET wo == unit_vector(world_to_local(o.uvw, direction))
        wh == unit_vector(VAdd(o.wi, wo))
    IN  IF ~RGreater(RMul(wo[3], o.wi[3]), Zero)
        THEN DInf
        ELSE DScale(Half,
                 DAdd(OverPi(AbsCosTheta(o.wi)),
                      Plain(RDiv(DistPdf(o.distribution, wo, o.wi, wh),
                                 RMul(R(4), dot(wo, wh))))))

glossy_value(o, direction) ==
    LET wo == unit_vector(world_to_local(o.uvw, direction))
        wh == unit_vector(VAdd(o.wi, wo))
    IN  IF RLess(RMul(wo[3], o.wi[3]), Zero)
        THEN DInf
        ELSE DScale(Half,
                 DAdd(OverPi(AbsCosTheta(o.wi)),
                      Plain(RDiv(DistPdf(o.distribution, wo, o.wi, wh),
                                 RMul(R(4), dot(wo, wh))))))

\* ------------------------------------------------------------------------
\* hitable_pdf

hitable_pdf(p, origin) == [kind |-> "hitable", ptr |-> p, o |-> origin]

hitable_value(o, direction) == hitable_list_pdf_value(o.ptr, o.o, direction)

\* ------------------------------------------------------------------------
\* hair_pdf.  The constructor is defined in pdf.h; value, generate and
\* ComputeApPdf are declared there and defined outside it, and follow their
\* description: a sum over the scattering orders 0..pMax of a longitudinal
\* density times an azimuthal density, each order weighted by ComputeApPdf.

\* Highest scattering order; the per-order arrays have pMax + 1 entries.
pMax == 3

\* Length of sin2kAlpha and cos2kAlpha.
ConeTerms == 3

Access(arr, idx) == [arr |-> arr, idx |-> idx]

\* Indices visited by  for (int i = 0; i < 3; ++i)
ConeLoop == {i \in 0..ConeTerms : i < ConeTerms}

\* Indices visited by  for (int p = 0; p <= pMax + 1; ++p)
VLoop == {p \in 0..(pMax + 2) : p <= pMax + 1}

\* The object after the constructor ran on the caller's arrays cos2kAlpha_,
\* sin2kAlpha_ (ConeTerms entries) and v_ (pMax + 1 entries).  `beyond` is
\* whatever a read past the end of v_ yields.  The members v, sin2kAlpha and
\* cos2kAlpha keep their declared lengths; reads and writes record every
\* element access the loops make, inside the arrays or not.
hair_pdf(params, cos2kAlpha_, sin2kAlpha_, v_, beyond) ==
    [kind |-> "hair", st |-> "built",
     uvw |-> params.uvw, wi |-> params.wi, wo |-> params.wo,
     eta |-> params.eta, h |-> params.h, gammaO |-> params.gammaO,
     s |-> params.s, sigma_a |-> params.sigma_a,
     sin2kAlpha |-> [i \in 0..(ConeTerms - 1) |-> sin2kAlpha_[i]],
     cos2kAlpha |-> [i \in 0..(ConeTerms - 1) |-> cos2kAlpha_[i]],
     v |-> [p \in 0..pMax |-> v_[p]],
     past |-> {[idx |-> p, value |-> beyond] : p \in VLoop \ (0..pMax)},
     reads |-> {Access("sin2kAlpha_", i) : i \in ConeLoop}
                  \cup {Access("cos2kAlpha_", i) : i \in ConeLoop}
                  \cup {Access("v_", p) : p \in VLoop},
     writes |-> {Access("sin2kAlpha", i) : i \in ConeLoop}
                  \cup {Access("cos2kAlpha", i) : i \in ConeLoop}
                  \cup {Access("v", p) : p \in VLoop}]

\* f[0] + ... + f[p]
RECURSIVE SumOrders(_, _)
SumOrders(f, p) == IF p < 0 THEN Zero ELSE RAdd(f[p], SumOrders(f, p - 1))

\* Cosine of the outgoing direction's angle to the plane normal to the
\* fibre (the fibre runs along the local x axis).
CosThetaO(o) == RSqrt(RSub(One, RMul(o.wo[1], o.wo[1])))

\* The attenuation of order p: an opaque positive weight.
Attenuation(cosThetaO, p) == RAdd(R(p + 1), RAbs(cosThetaO))

\* ComputeApPdf(cosThetaO): the pMax + 1 order weights, normalised.
ComputeApPdf(cosThetaO) ==
    [p \in 0..pMax |->
        RDiv(Attenuation(cosThetaO, p),
             SumOrders([q \in 0..pMax |-> Attenuation(cosThetaO, q)], pMax))]

\* The longitudinal density of order p towards the local direction wiL: an
\* opaque positive density of the order's variance v[p] and, for the orders
\* that have one, its cached cone term.
LongitudinalPdf(o, p, wiL) ==
    RMul(IF p < ConeTerms THEN R(o.cos2kAlpha[p]) ELSE One,
         RAdd(R(o.v[p]), RAbs(wiL[1])))

\* The azimuthal density: uniform, 1 / (2 pi).
AzimuthalPdf == OverPi(Half)

hair_value(o, direction) ==
    DScale(SumOrders([p \in 0..pMax |->
                         RMul(LongitudinalPdf(o, p, world_to_local(o.uvw, direction)),
                              ComputeApPdf(CosThetaO(o))[p])],
                     pMax),
           AzimuthalPdf)

\* ------------------------------------------------------------------------
\* mixture_pdf, and the virtual dispatch pdf::value over the classes of
\* pdf.h.

mixture_pdf(p0, p1) == [kind |-> "mixture", p |-> <<p0, p1>>]

RECURSIVE pdf_value(_, _)

mixture_value_first(o, direction) ==
    DAdd(DScale(Half, pdf_value(o.p[1], direction)),
         DScale(Half, pdf_value(o.p[1], direction)))

mixture_value(o, direction) ==
    DAdd(DScale(Half, pdf_value(o.p[1], direction)),
         DScale(Half, pdf_value(o.p[2], direction)))

\* Virtual dispatch pdf::value over the classes of pdf.h.
pdf_value(o, direction) ==
    CASE o.kind = "cosine"  -> cosine_value(o, direction)
      [] o.kind = "micro"   -> micro_value(o, direction)
      [] o.kind = "glossy"  -> glossy_value(o, direction)
      [] o.kind = "hair"    -> hair_value(o, direction)
      [] o.kind = "hitable" -> hitable_value(o, direction)
      [] o.kind = "mixture" -> mixture_value(o, direction)

\* ------------------------------------------------------------------------
\* generate.  The randomness source (random_gen, or a Sampler) is a sequence
\* s of uniform numbers and the count pos of those already handed out; the
\* k-th draw of a call at pos is s[pos + k].  A generate returns
\*   dir    the direction returned,
\*   pos    the source's position afterwards,
\*   log    the draws made, in order: who drew, which element, for what,
\*   called the components a mixture delegated to.
\* order is the order in which the build evaluates the two unif_rand()
\* arguments of one call (unspecified in C++): "lr" or "rl".

Drew(who, idx, use) == [who |-> who, idx |-> idx, use |-> use]

Gen(dir, pos, log) == [dir |-> dir, pos |-> pos, log |-> log, called |-> <<>>]

cosine_generate_rng(o, s, pos) ==
    Gen(local_to_world(o.uvw, rand_cosine_direction(s[pos + 1], s[pos + 2])),
        pos + 2,
        <<Drew("cosine", pos + 1, "r1"), Drew("cosine", pos + 2, "r2")>>)

cosine_generate_sampler(o, s, pos) ==
    Gen(local_to_world(o.uvw, rand_cosine_direction(s[pos + 1], s[pos + 2])),
        pos + 2,
        <<Drew("cosine", pos + 1, "r1"), Drew("cosine", pos + 2, "r2")>>)

\* Sample_wh(wi, rng.unif_rand(), rng.unif_rand()) at source position pos.
Sample_wh_rng(o, s, pos, order, who) ==
    LET i1 == IF order = "lr" THEN pos + 1 ELSE pos + 2
        i2 == IF order = "lr" THEN pos + 2 ELSE pos + 1
        wh == Sample_wh(o.distribution, o.wi, s[i1], s[i2])
    IN  Gen(local_to_world(o.uvw, Reflect(o.wi, wh)),
            pos + 2,
            IF order = "lr"
            THEN <<Drew(who, i1, "u1"), Drew(who, i2, "u2")>>
            ELSE <<Drew(who, i2, "u2"), Drew(who, i1, "u1")>>)

\* vec2 u = sampler->Get2D(); Sample_wh(wi, u.x(), u.y())
Sample_wh_sampler(o, s, pos, who) ==
    LET wh == Sample_wh(o.distribution, o.wi, s[pos + 1], s[pos + 2])
    IN  Gen(local_to_world(o.uvw, Reflect(o.wi, wh)),
            pos + 2,
            <<Drew(who, pos + 1, "u1"), Drew(who, pos + 2, "u2")>>)

micro_generate_rng(o, s, pos, order) == Sample_wh_rng(o, s, pos, order, "micro")

micro_generate_sampler(o, s, pos) == Sample_wh_sampler(o, s, pos, "micro")

Prepend(e, g) == [g EXCEPT !.log = <<e>> \o g.log]

glossy_generate_rng(o, s, pos, order) ==
    IF RLess(s[pos + 1], Half)
    THEN Prepend(Drew("glossy", pos + 1, "select"),
                 Sample_wh_rng(o, s, pos + 1, order, "glossy"))
    ELSE Prepend(Drew("glossy", pos + 1, "select"),
                 Gen(local_to_world(o.uvw,
                         rand_cosine_direction(s[pos + 2], s[pos + 3])),
                     pos + 3,
                     <<Drew("glossy", pos + 2, "r1"), Drew("glossy", pos + 3, "r2")>>))

glossy_generate_sampler(o, s, pos) ==
    IF RLess(s[pos + 1], Half)
    THEN Prepend(Drew("glossy", pos + 1, "select"),
                 Sample_wh_sampler(o, s, pos + 1, "glossy"))
    ELSE Prepend(Drew("glossy", pos + 1, "select"),
                 Gen(local_to_world(o.uvw,
                         rand_cosine_direction(s[pos + 2], s[pos + 3])),
                     pos + 3,
                     <<Drew("glossy", pos + 2, "r1"), Drew("glossy", pos + 3, "r2")>>))

\* The order selected by the draw u: the first whose cumulative weight
\* exceeds u.
SelectOrder(apPdf, u) ==
    CHOOSE p \in 0..pMax :
        /\ p = pMax \/ RLess(u, SumOrders(apPdf, p))
        /\ \A q \in 0..(p - 1) : ~RLess(u, SumOrders(apPdf, q))

\* The direction of polar angle theta and azimuth phi about the fibre in
\* the lobe of order p; the odd orders leave on the far side.
HairDirection(p, sincosTheta, cossinPhi) ==
    << IF p % 2 = 1 THEN RNeg(sincosTheta[1]) ELSE sincosTheta[1],
       RMul(sincosTheta[2], cossinPhi[1]),
       RMul(sincosTheta[2], cossinPhi[2]) >>

\* hair_pdf::generate: one draw picks the order, one the polar angle, one
\* the azimuth.
hair_generate(o, s, pos) ==
    Gen(local_to_world(o.uvw,
            HairDirection(SelectOrder(ComputeApPdf(CosThetaO(o)), s[pos + 1]),
                          SqrtPair(s[pos + 2]), CosSin2Pi(s[pos + 3]))),
        pos + 3,
        <<Drew("hair", pos + 1, "order"), Drew("hair", pos + 2, "polar"),
          Drew("hair", pos + 3, "azimuth")>>)

hair_generate_rng(o, s, pos) == hair_generate(o, s, pos)

hair_generate_sampler(o, s, pos) == hair_generate(o, s, pos)

\* hitable_list::random(o, source): one draw picks the item, the item's
\* random makes two more.
hitable_list_random(list, o, s, pos) ==
    Gen(triangle_random(list[IndexOf(s[pos + 1], Len(list)) + 1], o,
                        s[pos + 2], s[pos + 3]),
        pos + 3,
        <<Drew("hitable_list", pos + 1, "index"),
          Drew("triangle", pos + 2, "r1"), Drew("triangle", pos + 3, "r2")>>)

hitable_generate_rng(o, s, pos) == hitable_list_random(o.ptr, o.o, s, pos)

hitable_generate_sampler(o, s, pos) == hitable_list_random(o.ptr, o.o, s, pos)

Delegated(i, e, g) == [g EXCEPT !.log = <<e>> \o g.log, !.called = <<i>>]

RECURSIVE pdf_generate_rng(_, _, _, _)

RECURSIVE pdf_generate_sampler(_, _, _)

\* A mixture whose component is handed the source one draw too early, so
\* that the selection draw is drawn again by the component.
mixture_generate_rng_reuse(o, s, pos, order) ==
    IF RLess(s[pos + 1], Half)
    THEN Delegated(0, Drew("mixture", pos + 1, "select"),
                   pdf_generate_rng(o.p[1], s, pos, order))
    ELSE Delegated(1, Drew("mixture", pos + 1, "select"),
                   pdf_generate_rng(o.p[2], s, pos, order))

mixture_generate_rng(o, s, pos, order) ==
    IF RLess(s[pos + 1], Half)
    THEN Delegated(0, Drew("mixture", pos + 1, "select"),
                   pdf_generate_rng(o.p[1], s, pos + 1, order))
    ELSE Delegated(1, Drew("mixture", pos + 1, "select"),
                   pdf_generate_rng(o.p[2], s, pos + 1, order))

mixture_generate_sampler(o, s, pos) ==
    IF RLess(s[pos + 1], Half)
    THEN Delegated(0, Drew("mixture", pos + 1, "select"),
                   pdf_generate_sampler(o.p[1], s, pos + 1))
    ELSE Delegated(1, Drew("mixture", pos + 1, "select"),
                   pdf_generate_sampler(o.p[2], s, pos + 1))

\* Virtual dispatch pdf::generate over the classes of pdf.h.
pdf_generate_rng(o, s, pos, order) ==
    CASE o.kind = "cosine"  -> cosine_generate_rng(o, s, pos)
      [] o.kind = "micro"   -> micro_generate_rng(o, s, pos, order)
      [] o.kind = "glossy"  -> glossy_generate_rng(o, s, pos, order)
      [] o.kind = "hair"    -> hair_generate_rng(o, s, pos)
      [] o.kind = "hitable" -> hitable_generate_rng(o, s, pos)
      [] o.kind = "mixture" -> mixture_generate_rng(o, s, pos, order)

pdf_generate_sampler(o, s, pos) ==
    CASE o.kind = "cosine"  -> cosine_generate_sampler(o, s, pos)
      [] o.kind = "micro"   -> micro_generate_sampler(o, s, pos)
      [] o.kind = "glossy"  -> glossy_generate_sampler(o, s, pos)
      [] o.kind = "hair"    -> hair_generate_sampler(o, s, pos)
      [] o.kind = "hitable" -> hitable_generate_sampler(o, s, pos)
      [] o.kind = "mixture" -> mixture_generate_sampler(o, s, pos)

Max(a, b) == IF a >= b THEN a ELSE b

\* The most draws one generate call of o can make.
RECURSIVE MaxDraws(_)
MaxDraws(o) ==
    CASE o.kind = "cosine"  -> 2
      [] o.kind = "micro"   -> 2
      [] o.kind = "glossy"  -> 3
      [] o.kind = "hair"    -> 3
      [] o.kind = "hitable" -> 3
      [] o.kind = "mixture" -> 1 + Max(MaxDraws(o.p[1]), MaxDraws(o.p[2]))

\* ------------------------------------------------------------------------
\* Bounds and input sets

\* Length of the sequence of uniform numbers a randomness source holds.
StreamLen == 4

\* uniform() values; 1/2 is the boundary of every `< 0.5` selection.
Uniforms == {Rat(1, 4), Half, Rat(3, 4)}

Streams == [1..StreamLen -> Uniforms]

\* Surface normals the frames are built from.
Axes == {V(0, 0, 1), V(0, 3, 4)}

\* World-space incoming directions given to micro_pdf and glossy_pdf: from
\* above the surface, grazing, and from below it.
Incoming == {V(0, 0, -1), V(0, -24, -7), V(0, -1, 0), V(0, 0, 2)}

\* World-space directions passed to value(); not normalised, and the zero
\* vector among them.
Directions ==
    {V(0, 0, 1), V(0, 0, -1), V(0, 24, 7), V(0, -24, -7), V(0, 48, -14),
     V(0, 1, 0), V(0, -1, 0), V(0, 0, 0)}

Distributions == {1, 2}

Components(dists, ins) ==
    {cosine_pdf(w) : w \in Axes}
        \cup {micro_pdf(w, wi_, a) : w \in Axes, wi_ \in ins, a \in dists}
        \cup {glossy_pdf(w, wi_, a) : w \in Axes, wi_ \in ins, a \in dists}

\* Mixtures of two strategies for the same shading event (same frame).
Mixtures(dists, ins) ==
    {mixture_pdf(pp[1], pp[2]) :
        pp \in {qq \in Components(dists, ins) \X Components(dists, ins) :
                    qq[1].uvw = qq[2].uvw}}

\* Light-emitting triangles and the lists of them a hitable_pdf samples,
\* seen from the shading point LightOrigin.
Lights ==
    << triangle_plain(<<V(-1, -1, 1), V(3, -1, 1), V(-1, 3, 1)>>,
                      FALSE, Null, Null, Null),
       triangle_plain(<<V(-1, 24, 0), V(3, 24, 0), V(-1, 24, 28)>>,
                      FALSE, Null, Null, Null) >>

HitableLists == {<<Lights[1]>>, Lights}

LightOrigin == V(0, 0, 0)

HitablePdfs == {hitable_pdf(l, LightOrigin) : l \in HitableLists}

\* Mixtures over a hitable_pdf and over other mixtures: the strategies of
\* one shading event, combined one and two levels deep.
Strategies ==
    {cosine_pdf(V(0, 0, 1)), glossy_pdf(V(0, 0, 1), V(0, -24, -7), 2),
     hitable_pdf(Lights, LightOrigin)}

FlatMixtures == {mixture_pdf(pp[1], pp[2]) : pp \in Strategies \X Strategies}

NestedMixtures ==
    {mixture_pdf(m, q) : m \in FlatMixtures, q \in Strategies}
        \cup {mixture_pdf(q, m) : m \in FlatMixtures, q \in Strategies}

HairParams ==
    [uvw |-> build_from_w(V(0, 0, 1)), wi |-> V(0, 0, 1), wo |-> V(0, 0, 1),
     eta |-> Rat(3, 2), h |-> Zero, gammaO |-> Zero, s |-> One,
     sigma_a |-> V(1, 1, 1)]

\* Fibres that differ in their per-order variances.
HairPdfs ==
    {hair_pdf(HairParams, [i \in 0..(ConeTerms - 1) |-> 1],
              [i \in 0..(ConeTerms - 1) |-> 1], v_, 1) :
        v_ \in {[p \in 0..pMax |-> 1], [p \in 0..pMax |-> 1 + (p % 2)]}}

\* Mixtures of a fibre's strategy with another one.
HairMixtures ==
    {mixture_pdf(h, q) : h \in HairPdfs, q \in HairPdfs \cup {cosine_pdf(V(0, 0, 1))}}
        \cup {mixture_pdf(cosine_pdf(V(0, 0, 1)), h) : h \in HairPdfs}

\* Every square root value() takes of o at direction is exact.
RECURSIVE ExactValue(_, _)
ExactValue(o, direction) ==
    IF o.kind = "mixture"
    THEN ExactValue(o.p[1], direction) /\ ExactValue(o.p[2], direction)
    ELSE /\ ExactLength(direction)
         /\ o.kind \in {"micro", "glossy"} =>
               ExactLength(VAdd(o.wi,
                   unit_vector(world_to_local(o.uvw, direction))))

\* ------------------------------------------------------------------------
\* State

VARIABLES
    obj,        \* the pdf object under consideration
    evalOrder,  \* the build's evaluation order of call arguments
    stream,     \* the uniform numbers both randomness sources supply
    rngPos,     \* numbers the random_gen has handed out
    smpPos,     \* numbers the Sampler has handed out
    val,        \* the last value() call: its direction and result
    genRng,     \* the last generate(random_gen&) call: start and result
    genSmp,     \* the last generate(Sampler*) call: start and result
    tri,        \* the triangle objects, by identity
    released,   \* how often each pointee has been passed to delete
    hair        \* the hair_pdf object and the accesses its constructor made

pdfVars == <<obj, evalOrder, stream, rngPos, smpPos, val, genRng, genSmp>>

triVars == <<tri, released>>

vars == <<obj, evalOrder, stream, rngPos, smpPos, val, genRng, genSmp,
          tri, released, hair>>

NoCall == [set |-> FALSE]

IdleStream == [i \in 1..StreamLen |-> Half]

\* ------------------------------------------------------------------------
\* triangle: the heap objects it points to, and its inputs

Materials == {"m1", "m2"}

AlphaTextures == {"a1"}

BumpTextures == {"b1"}

Objects == Materials \cup AlphaTextures \cup BumpTextures

TriIds == {"t1", "t2"}

\* Vertex triples <<a, b, c>>; the last one is degenerate (zero area).
Vertices ==
    { <<V(0, 0, 0), V(1, 0, 0), V(0, 1, 0)>>,
      <<V(1, 1, 1), V(2, 1, 1), V(1, 4, 5)>>,
      <<V(0, 0, 0), V(1, 0, 0), V(2, 0, 0)>> }

ShadingNormals == { <<V(0, 0, 1), V(0, 0, 1), V(0, 0, 1)>> }

NoTriangle == [st |-> "none"]

IdleTri == [t \in TriIds |-> NoTriangle]

IdleReleased == [o \in Objects \cup {Wild} |-> 0]

\* ------------------------------------------------------------------------
\* hair_pdf: values of the constructor's arrays

HairValues == {1, 2}

IdleHair == [st |-> "none"]

\* ------------------------------------------------------------------------
\* value() calls

InitValue ==
    /\ obj \in Components(Distributions, Incoming)
                 \cup Mixtures({2}, {V(0, 0, -1), V(0, 0, 2)})
                 \cup HitablePdfs \cup FlatMixtures \cup NestedMixtures
                 \cup HairPdfs \cup HairMixtures
    /\ evalOrder = "lr"
    /\ stream = IdleStream
    /\ rngPos = 0
    /\ smpPos = 0
    /\ val = NoCall
    /\ genRng = NoCall
    /\ genSmp = NoCall
    /\ tri = IdleTri
    /\ released = IdleReleased
    /\ hair = IdleHair

Returned(direction, r) == [set |-> TRUE, d |-> direction, r |-> r]

CosineValue(direction) ==
    /\ obj.kind = "cosine"
    /\ ExactValue(obj, direction)
    /\ val' = Returned(direction, cosine_value(obj, direction))
    /\ UNCHANGED <<obj, evalOrder, stream, rngPos, smpPos, genRng, genSmp,
                   tri, released, hair>>

MicroValue(direction) ==
    /\ obj.kind = "micro"
    /\ ExactValue(obj, direction)
    /\ val' = Returned(direction, micro_value(obj, direction))
    /\ UNCHANGED <<obj, evalOrder, stream, rngPos, smpPos, genRng, genSmp,
                   tri, released, hair>>

GlossyValue(direction) ==
    /\ obj.kind = "glossy"
    /\ ExactValue(obj, direction)
    /\ val' = Returned(direction, glossy_value(obj, direction))
    /\ UNCHANGED <<obj, evalOrder, stream, rngPos, smpPos, genRng, genSmp,
                   tri, released, hair>>

HitableValue(direction) ==
    /\ obj.kind = "hitable"
    /\ ExactValue(obj, direction)
    /\ val' = Returned(direction, hitable_value(obj, direction))
    /\ UNCHANGED <<obj, evalOrder, stream, rngPos, smpPos, genRng, genSmp,
                   tri, released, hair>>

HairValue(direction) ==
    /\ obj.kind = "hair"
    /\ ExactValue(obj, direction)
    /\ val' = Returned(direction, hair_value(obj, direction))
    /\ UNCHANGED <<obj, evalOrder, stream, rngPos, smpPos, genRng, genSmp,
                   tri, released, hair>>

MixtureValue(direction) ==
    /\ obj.kind = "mixture"
    /\ ExactValue(obj, direction)
    /\ val' = Returned(direction, mixture_value(obj, direction))
    /\ UNCHANGED <<obj, evalOrder, stream, rngPos, smpPos, genRng, genSmp,
                   tri, released, hair>>

NextValue ==
    \E direction \in Directions :
        \/ CosineValue(direction)
        \/ MicroValue(direction)
        \/ GlossyValue(direction)
        \/ HairValue(direction)
        \/ HitableValue(direction)
        \/ MixtureValue(direction)

SpecValue == InitValue /\ [][NextValue]_vars

\* ------------------------------------------------------------------------
\* Properties of value()

\* The local outgoing direction and the hemisphere product of a value() call
\* on a micro_pdf or glossy_pdf.
LocalOut == unit_vector(world_to_local(obj.uvw, val.d))

HemiProduct == RMul(LocalOut[3], obj.wi[3])

\* C1: a mixture's value(d) is the arithmetic mean of its two components'
\* value(d); a mixture of one cosine_pdf with itself reports that
\* cosine_pdf's value.
C1_MixtureValueIsMean ==
    (val.set /\ obj.kind = "mixture") =>
        /\ DScale(R(2), val.r)
              = DAdd(pdf_value(obj.p[1], val.d), pdf_value(obj.p[2], val.d))
        /\ (obj.p[1] = obj.p[2] /\ obj.p[1].kind = "cosine")
              => val.r = cosine_value(obj.p[1], val.d)

C1_Witness ==
    /\ val.set
    /\ obj.kind = "mixture"
    /\ obj.p[1].kind = "cosine"
    /\ obj.p[2].kind = "glossy"
    /\ IsFinite(val.r.k)
    /\ pdf_value(obj.p[1], val.d) # pdf_value(obj.p[2], val.d)
    /\ val.r # DZero

\* C5: cosine_pdf::value(d) is cos/pi when cos = dot(normalize(d), w) is
\* positive and exactly 0 when cos <= 0; it is never negative and never a
\* NaN or an infinity.
C5_CosineValue ==
    (val.set /\ obj.kind = "cosine") =>
        LET cosine == dot(unit_vector(val.d), obj.uvw[3])
        IN  /\ RGreater(cosine, Zero) => val.r = [p |-> cosine, k |-> Zero]
            /\ (RLess(cosine, Zero) \/ cosine = Zero) => val.r = DZero
            /\ DNonNegative(val.r)
            /\ IsFinite(val.r.p) /\ IsFinite(val.r.k)

C5_Witness ==
    /\ val.set
    /\ obj = cosine_pdf(V(0, 0, 1))
    /\ val.d = V(0, 0, 1)
    /\ val.r = [p |-> One, k |-> Zero]

\* C6: glossy_pdf::value(d) is the infinity sentinel exactly when
\* wo.z * wi.z < 0, and otherwise (also when the product is 0) it is
\* 0.5 * (|wi.z|/pi + distribution.Pdf(wo,wi,wh) / (4 dot(wo,wh))).
C6_GlossySentinel ==
    (val.set /\ obj.kind = "glossy") =>
        LET wo == LocalOut
            wh == unit_vector(VAdd(obj.wi, wo))
            spec == RDiv(DistPdf(obj.distribution, wo, obj.wi, wh),
                         RMul(R(4), dot(wo, wh)))
        IN  /\ DIsInf(val.r) <=> RLess(HemiProduct, Zero)
            /\ ~RLess(HemiProduct, Zero) =>
                  val.r = Dens(RMul(Half, RAbs(obj.wi[3])), RMul(Half, spec))

C6_Witness ==
    /\ val.set
    /\ obj.kind = "glossy"
    /\ HemiProduct = Zero
    /\ IsFinite(val.r.k)
    /\ val.r # DZero

\* C2: on the incoming direction's side of the surface, glossy_pdf::value(d)
\* is the density with which glossy_pdf::generate returns d: half the
\* density of its cosine-weighted branch (cosine_pdf::generate in the same
\* frame, of density cosine_pdf::value(d)) plus half the density of its
\* half-vector reflection branch (micro_pdf::generate, of density
\* micro_pdf::value(d)).
C2_GlossySelfConsistent ==
    (val.set /\ obj.kind = "glossy" /\ RGreater(HemiProduct, Zero)) =>
        val.r = DAdd(DScale(Half, cosine_value([kind |-> "cosine", uvw |-> obj.uvw],
                                               val.d)),
                     DScale(Half, micro_value([obj EXCEPT !.kind = "micro"], val.d)))

\* ------------------------------------------------------------------------
\* generate() calls

InitGen ==
    /\ obj \in Components({2}, {V(0, 0, -1), V(0, -24, -7), V(0, 0, 2)})
                 \cup Mixtures({2}, {V(0, -24, -7)})
                 \cup HitablePdfs \cup FlatMixtures \cup NestedMixtures
                 \cup HairPdfs \cup HairMixtures
    /\ evalOrder \in {"lr", "rl"}
    /\ stream \in Streams
    /\ rngPos = 0
    /\ smpPos = 0
    /\ val = NoCall
    /\ genRng = NoCall
    /\ genSmp = NoCall
    /\ tri = IdleTri
    /\ released = IdleReleased
    /\ hair = IdleHair

Generated(start, out) == [set |-> TRUE, start |-> start, out |-> out]

\* generate(random_gen& rng) of the class `kind`
GenerateRng(kind, out) ==
    /\ obj.kind = kind
    /\ rngPos + MaxDraws(obj) <= StreamLen
    /\ genRng' = Generated(rngPos, out)
    /\ rngPos' = out.pos
    /\ UNCHANGED <<obj, evalOrder, stream, smpPos, val, genSmp, tri, released, hair>>

\* generate(Sampler* sampler) of the class `kind`
GenerateSampler(kind, out) ==
    /\ obj.kind = kind
    /\ smpPos + MaxDraws(obj) <= StreamLen
    /\ genSmp' = Generated(smpPos, out)
    /\ smpPos' = out.pos
    /\ UNCHANGED <<obj, evalOrder, stream, rngPos, val, genRng, tri, released, hair>>

CosineGenerateRng ==
    GenerateRng("cosine", cosine_generate_rng(obj, stream, rngPos))

CosineGenerateSampler ==
    GenerateSampler("cosine", cosine_generate_sampler(obj, stream, smpPos))

MicroGenerateRng ==
    GenerateRng("micro", micro_generate_rng(obj, stream, rngPos, evalOrder))

MicroGenerateSampler ==
    GenerateSampler("micro", micro_generate_sampler(obj, stream, smpPos))

GlossyGenerateRng ==
    GenerateRng("glossy", glossy_generate_rng(obj, stream, rngPos, evalOrder))

GlossyGenerateSampler ==
    GenerateSampler("glossy", glossy_generate_sampler(obj, stream, smpPos))

HairGenerateRng ==
    GenerateRng("hair", hair_generate_rng(obj, stream, rngPos))

HairGenerateSampler ==
    GenerateSampler("hair", hair_generate_sampler(obj, stream, smpPos))

HitableGenerateRng ==
    GenerateRng("hitable", hitable_generate_rng(obj, stream, rngPos))

HitableGenerateSampler ==
    GenerateSampler("hitable", hitable_generate_sampler(obj, stream, smpPos))

MixtureGenerateRng ==
    GenerateRng("mixture", mixture_generate_rng(obj, stream, rngPos, evalOrder))

MixtureGenerateSampler ==
    GenerateSampler("mixture", mixture_generate_sampler(obj, stream, smpPos))

NextGen ==
    \/ CosineGenerateRng
    \/ CosineGenerateSampler
    \/ MicroGenerateRng
    \/ MicroGenerateSampler
    \/ GlossyGenerateRng
    \/ GlossyGenerateSampler
    \/ HairGenerateRng
    \/ HairGenerateSampler
    \/ HitableGenerateRng
    \/ HitableGenerateSampler
    \/ MixtureGenerateRng
    \/ MixtureGenerateSampler

SpecGen == InitGen /\ [][NextGen]_vars

\* ------------------------------------------------------------------------
\* Properties of generate()

\* One mixture generate call g that started at g.start: the first draw is
\* the mixture's own and the only one it makes, it selects component 0 when
\* it is < 0.5 and component 1 otherwise, that component alone is called,
\* and the component's draws are later elements of the source, none of them
\* the selection draw and none drawn twice; `delegate` is the selected
\* component's own generate (itself a mixture's, possibly) at the position
\* after the selection draw.
OneSelection(g, delegate) ==
    LET log == g.out.log
        sel == g.start + 1
        chosen == IF RLess(stream[sel], Half) THEN 0 ELSE 1
        rest == SubSeq(log, 2, Len(log))
    IN  /\ Len(log) >= 1
        /\ log[1] = Drew("mixture", sel, "select")
        /\ \A i \in 2..Len(log) :
              /\ log[i].idx > sel
              /\ \A j \in 2..Len(log) : (i # j) => log[i].idx # log[j].idx
        /\ g.out.called = <<chosen>>
        /\ g.out.dir = delegate[chosen + 1].dir
        /\ rest = delegate[chosen + 1].log
        /\ g.out.pos = delegate[chosen + 1].pos

\* C4: in both forms, mixture_pdf::generate draws exactly one uniform number
\* for selection, delegates to p0 if it is < 0.5 and to p1 otherwise, calls
\* exactly one component, and the component draws fresh numbers after it.
C4_MixtureGenerate ==
    /\ (genRng.set /\ obj.kind = "mixture") =>
          OneSelection(genRng,
              <<pdf_generate_rng(obj.p[1], stream, genRng.start + 1, evalOrder),
                pdf_generate_rng(obj.p[2], stream, genRng.start + 1, evalOrder)>>)
    /\ (genSmp.set /\ obj.kind = "mixture") =>
          OneSelection(genSmp,
              <<pdf_generate_sampler(obj.p[1], stream, genSmp.start + 1),
                pdf_generate_sampler(obj.p[2], stream, genSmp.start + 1)>>)

C4_Witness ==
    /\ obj.kind = "mixture"
    /\ obj.p[1].kind = "cosine"
    /\ obj.p[2].kind = "glossy"
    /\ genRng.set
    /\ genSmp.set
    /\ stream[1] = Half
    /\ genRng.out.called = <<1>>
    /\ genSmp.out.called = <<1>>
    /\ Len(genRng.out.log) = 4

\* C7: given the same sequence of uniform numbers from the same position,
\* generate(random_gen&) and generate(Sampler*) make the same draws in the
\* same order for the same purposes, take the same branch and return the
\* same direction.
C7_FormsInterchangeable ==
    (genRng.set /\ genSmp.set /\ genRng.start = genSmp.start) =>
        genRng.out = genSmp.out

InitTri ==
    /\ obj = cosine_pdf(V(0, 0, 1))
    /\ evalOrder = "lr"
    /\ stream = IdleStream
    /\ rngPos = 0
    /\ smpPos = 0
    /\ val = NoCall
    /\ genRng = NoCall
    /\ genSmp = NoCall
    /\ tri = IdleTri
    /\ released = IdleReleased
    /\ hair = IdleHair

ConstructDefault(t) ==
    /\ tri[t].st = "none"
    /\ \E _single \in BOOLEAN,
          mat \in Materials \cup {Null, Wild},
          alpha_mask \in AlphaTextures \cup {Null, Wild},
          bump_tex \in BumpTextures \cup {Null, Wild} :
          tri' = [tri EXCEPT ![t] = triangle_default(_single, mat, alpha_mask, bump_tex)]
    /\ UNCHANGED <<pdfVars, released, hair>>

Construct(t) ==
    /\ tri[t].st = "none"
    /\ \E abc \in Vertices, _single \in BOOLEAN,
          mat \in Materials \cup {Null},
          alpha_mask \in AlphaTextures \cup {Null},
          bump_tex \in BumpTextures \cup {Null} :
          tri' = [tri EXCEPT ![t] =
                     triangle_plain(abc, _single, mat, alpha_mask, bump_tex)]
    /\ UNCHANGED <<pdfVars, released, hair>>

ConstructWithNormals(t) ==
    /\ tri[t].st = "none"
    /\ \E abc \in Vertices, nabc \in ShadingNormals, _single \in BOOLEAN,
          mat \in Materials \cup {Null},
          alpha_mask \in AlphaTextures \cup {Null},
          bump_tex \in BumpTextures \cup {Null} :
          tri' = [tri EXCEPT ![t] =
                     triangle_normals(abc, nabc, _single, mat, alpha_mask, bump_tex)]
    /\ UNCHANGED <<pdfVars, released, hair>>

Destroy(t) ==
    /\ tri[t].st = "live"
    /\ released' = triangle_dtor(tri[t], released)
    /\ tri' = [tri EXCEPT ![t].st = "dead"]
    /\ UNCHANGED <<pdfVars, hair>>

NextTri ==
    \E t \in TriIds :
        \/ ConstructDefault(t)
        \/ Construct(t)
        \/ ConstructWithNormals(t)
        \/ Destroy(t)

SpecTri == InitTri /\ [][NextTri]_vars

\* ------------------------------------------------------------------------
\* Properties of triangle

\* C3: destroying a triangle passes its material, alpha mask and bump
\* texture (each only if set) to delete when its single flag is true, and
\* passes nothing to delete when the flag is false.
C3_OwnershipRule ==
    [][\A t \in TriIds :
          (tri[t].st = "live" /\ tri'[t].st = "dead") =>
              released' =
                  [o \in DOMAIN released |->
                      released[o]
                        + (IF tri[t].single /\ o = tri[t].mp THEN 1 ELSE 0)
                        + (IF tri[t].single /\ o = tri[t].alpha_mask THEN 1 ELSE 0)
                        + (IF tri[t].single /\ o = tri[t].bump_tex THEN 1 ELSE 0)]]_vars

C3_Witness ==
    /\ tri["t1"].st = "dead"
    /\ tri["t1"].ctor = "plain"
    /\ tri["t1"].single
    /\ tri["t1"].mp = "m1"
    /\ tri["t1"].alpha_mask = Null
    /\ tri["t1"].bump_tex = "b1"
    /\ tri["t2"].st = "dead"
    /\ tri["t2"].ctor = "normals"
    /\ ~tri["t2"].single
    /\ tri["t2"].mp = "m2"
    /\ tri["t2"].alpha_mask = "a1"
    /\ released = [IdleReleased EXCEPT !["m1"] = 1, !["b1"] = 1]

\* C8: after either constructor with parameters, for a non-degenerate
\* triangle, edge1 = b - a, edge2 = c - a, area = |edge1 x edge2| / 2 and
\* normal is the unit vector along edge1 x edge2.
C8_DerivedFields ==
    \A t \in TriIds :
        (/\ tri[t].st # "none"
         /\ tri[t].ctor \in {"plain", "normals"}
         /\ cross(VSub(tri[t].b, tri[t].a), VSub(tri[t].c, tri[t].a)) # V(0, 0, 0))
        => LET n == cross(VSub(tri[t].b, tri[t].a), VSub(tri[t].c, tri[t].a))
           IN  /\ tri[t].edge1 = VSub(tri[t].b, tri[t].a)
               /\ tri[t].edge2 = VSub(tri[t].c, tri[t].a)
               /\ RMul(R(2), tri[t].area) = length(n)
               /\ squared_length(tri[t].normal) = One
               /\ VScale(length(n), tri[t].normal) = n

\* C10: whatever triangles are constructed over the pool and destroyed in
\* whatever order, no object is passed to delete twice and none is deleted
\* while a triangle not yet destroyed points to it.
C10_NoDoubleReleaseNoDangling ==
    \A o \in Objects :
        /\ released[o] <= 1
        /\ released[o] >= 1 =>
              \A t \in TriIds : tri[t].st = "live" => o \notin Pointees(tri[t])

\* ------------------------------------------------------------------------
\* hair_pdf construction

InitHair ==
    /\ obj = cosine_pdf(V(0, 0, 1))
    /\ evalOrder = "lr"
    /\ stream = IdleStream
    /\ rngPos = 0
    /\ smpPos = 0
    /\ val = NoCall
    /\ genRng = NoCall
    /\ genSmp = NoCall
    /\ tri = IdleTri
    /\ released = IdleReleased
    /\ hair = IdleHair

HairConstruct ==
    /\ hair.st = "none"
    /\ \E cos2kAlpha_ \in [0..(ConeTerms - 1) -> HairValues],
          sin2kAlpha_ \in [0..(ConeTerms - 1) -> {1}],
          v_ \in [0..pMax -> HairValues],
          beyond \in HairValues :
          hair' = hair_pdf(HairParams, cos2kAlpha_, sin2kAlpha_, v_, beyond)
    /\ UNCHANGED <<pdfVars, triVars>>

NextHair == HairConstruct

SpecHair == InitHair /\ [][NextHair]_vars

\* C9: v has exactly pMax + 1 entries, and constructing a hair_pdf reads
\* v_ and writes v only at indices 0..pMax, and the cone-term arrays only
\* at indices within their length.
C9_HairArrayBounds ==
    hair.st = "built" =>
        /\ DOMAIN hair.v = 0..pMax
        /\ \A a \in hair.reads \cup hair.writes :
              IF a.arr \in {"v", "v_"}
              THEN a.idx \in 0..pMax
              ELSE a.idx \in 0..(ConeTerms - 1)

====
